---- MODULE Spec2Model ----
(***************************************************************************)
(* Credit metering and billing reconciliation of the ad generation         *)
(* service: AdGenerationService (src/app/services/generation.py) over the  *)
(* credits, usage_logs and user_ads tables (src/app/models.py).            *)
(*                                                                         *)
(* Every request runs in its own task with its own AsyncSession            *)
(* (src/app/database.py get_db).  A request is a process whose position    *)
(* pc moves from one database round trip or external call to the next;     *)
(* the synchronous code between two of them touches only the request's own *)
(* objects and is part of the step that follows the round trip.            *)
(***************************************************************************)
EXTENDS Integers, Sequences, FiniteSets, TLC

(* ---- bounds of the model ---- *)
MaxRequests == 2

\* the request tasks that can be in flight together
Procs == {1, 2}
Users == {"u1", "u2"}
None == "None"

(* ---- program constants ---- *)
\* app/config.py AD_PRICING
AD_PRICING == [text_ad |-> 5, image_ad |-> 10, video_ad |-> 1005]
\* routes/subscription.py: create_credits(db, user_id, included_credits=1000)
IncludedCredits == 1000

\* the ad types of the requests of this model: two of the cost table (image
\* ads enter as the draft of Init) and one, "banner_ad", that is not in it
AdTypes == {"text_ad", "video_ad", "banner_ad"}

Max(a, b) == IF a >= b THEN a ELSE b
Min(a, b) == IF a <= b THEN a ELSE b

\* AD_PRICING.get(ad_type): the cost, or a falsy value (modelled 0) for an
\* unknown tag; `if not credit_cost` is credit_cost = 0
AD_PRICING_get(ad_type) ==
    IF ad_type \in DOMAIN AD_PRICING THEN AD_PRICING[ad_type] ELSE 0

VARIABLES
    profiles,      \* table profiles: user_id -> row
    credits,       \* table credits (the ledger): user_id -> row
    user_ads,      \* table user_ads: the rows in the order of their ids
    usage_logs,    \* table usage_logs: the rows in the order of their ids
    req,           \* the request each task is serving, or served last
    begun,         \* how many requests have begun
    ad_history,    \* per ad: the ledger commits and meter events of its saves
    audit          \* per user: the first ledger, the debits and the units reported

db == <<profiles, credits, user_ads, usage_logs>>
vars == <<profiles, credits, user_ads, usage_logs, req, begun, ad_history, audit>>

(* ---- rows ---- *)
NoProfile == [exists |-> FALSE, stripe_customer_id |-> None, payment_status |-> None]
Profile(stripe_customer_id, payment_status) ==
    [exists |-> TRUE, stripe_customer_id |-> stripe_customer_id,
     payment_status |-> payment_status]

NoCredits ==
    [exists |-> FALSE, included_credits |-> 0, available_credits |-> 0,
     metered_credits |-> 0, total_used |-> 0]

\* CreditsService.create_credits: the ledger row of a new subscriber
create_credits(included_credits) ==
    [exists |-> TRUE, included_credits |-> included_credits,
     available_credits |-> included_credits,
     metered_credits |-> 0, total_used |-> 0]

(* ---- outcomes of the collaborators ---- *)
\* stripe.billing.MeterEvent.create: returns, raises a StripeError whose
\* message holds 'No active meter found', raises another StripeError, or
\* raises an exception that is no StripeError
StripeOutcomes == {"ok", "no_active_meter", "stripe_error", "other_error"}
\* a commit, or an upload to the storage bucket, succeeds or raises
IoOutcomes == {"ok", "fail"}

(* ---- AdGenerationService._handle_billing ---- *)
mutant_shortage(credit_cost, available_credits) == credit_cost

shortage_of(credit_cost, available_credits) ==
    Max(0, credit_cost - available_credits)

\* whether the meter event is attempted: `if shortage > 0` and
\* `if stripe_customer_id`
mutant_event_attempted(shortage, stripe_customer_id) == shortage > 0

event_attempted(shortage, stripe_customer_id) ==
    shortage > 0 /\ stripe_customer_id # None

\* which outcomes of the call leave _handle_billing by an exception:
\* `except stripe.StripeError` absorbs the processor's errors only
handle_billing_raises(outcome) == outcome = "other_error"

mutant__handle_billing(c, credit_cost, stripe_customer_id, outcome) ==
    LET shortage == shortage_of(credit_cost, c.available_credits)
        attempted == event_attempted(shortage, stripe_customer_id)
    IN [metered_credits |-> IF shortage > 0 THEN shortage ELSE 0,
        shortage |-> shortage,
        event |-> IF attempted THEN credit_cost ELSE 0,
        customer |-> IF attempted THEN stripe_customer_id ELSE None,
        reported |-> attempted /\ outcome = "ok",
        raised |-> attempted /\ handle_billing_raises(outcome)]

\* billing_result, with what the call did: metered_credits is None
\* (modelled 0) when there is no shortage
_handle_billing(c, credit_cost, stripe_customer_id, outcome) ==
    LET shortage == shortage_of(credit_cost, c.available_credits)
        attempted == event_attempted(shortage, stripe_customer_id)
    IN [metered_credits |-> IF shortage > 0 THEN shortage ELSE 0,
        shortage |-> shortage,
        event |-> IF attempted THEN shortage ELSE 0,
        customer |-> IF attempted THEN stripe_customer_id ELSE None,
        reported |-> attempted /\ outcome = "ok",
        raised |-> attempted /\ handle_billing_raises(outcome)]

(* ---- AdGenerationService._update_credits ---- *)
mutant_credits_from_available(available_credits, credit_cost) == credit_cost

mutant_credits_refunded(available_credits, credit_cost) ==
    0 - Min(available_credits, credit_cost)

credits_from_available(available_credits, credit_cost) ==
    Min(available_credits, credit_cost)

mutant__update_credits(c, credit_cost, shortage) ==
    [c EXCEPT
       !.available_credits = @ - credits_from_available(@, credit_cost),
       !.metered_credits = IF shortage > 0 THEN @ + shortage ELSE @,
       !.total_used = @ + credits_from_available(c.available_credits, credit_cost)]

\* the session's Credits object after the three assignments
_update_credits(c, credit_cost, shortage) ==
    [c EXCEPT
       !.available_credits = @ - credits_from_available(@, credit_cost),
       !.metered_credits = IF shortage > 0 THEN @ + shortage ELSE @,
       !.total_used = @ + credit_cost]

\* db.commit() of a modified Credits object: the UPDATE carries the
\* attributes whose value differs from the one loaded, as absolute values
flush_credits(row, loaded, cur) ==
    [row EXCEPT
       !.available_credits =
           IF cur.available_credits # loaded.available_credits
           THEN cur.available_credits ELSE @,
       !.metered_credits =
           IF cur.metered_credits # loaded.metered_credits
           THEN cur.metered_credits ELSE @,
       !.total_used =
           IF cur.total_used # loaded.total_used THEN cur.total_used ELSE @]

(* ---- a request: its inputs, its session's objects and what it did ---- *)
NoBilling ==
    [metered_credits |-> 0, shortage |-> 0, event |-> 0, customer |-> None,
     reported |-> FALSE, raised |-> FALSE]

Idle ==
    [kind |-> "idle", pc |-> "idle",
     user_id |-> None, ad_type |-> None, ad_id |-> 0,
     credit_cost |-> 0, stripe_customer_id |-> None,
     loaded |-> NoCredits,          \* the Credits row as the SELECT returned it
     credits |-> NoCredits,         \* the session's Credits object
     usage_log_id |-> 0,
     billing_result |-> NoBilling,
     from_available |-> 0,          \* credits_from_available of _update_credits
     committed |-> FALSE,           \* the ledger commit of this request succeeded
     steps |-> <<>>,                \* what the request has done, in order
     after_save |-> FALSE,          \* a save_ad of the same ad had succeeded when it began
     error_code |-> None,           \* ErrorResponse.error_code, or "OK"
     failed_at |-> None,            \* the step whose exception ended the request
     billing_info |-> [credits_used |-> 0, metered_credits |-> 0]]

mutant_Fail(r, error_code) ==
    [r EXCEPT !.pc = "done", !.error_code = "PROFILE_NOT_FOUND"]

\* return None, ErrorResponse(error_code=...)
Fail(r, error_code) == [r EXCEPT !.pc = "done", !.error_code = error_code]

mutant_Raise(r, step) == [r EXCEPT !.pc = "done", !.failed_at = step]

\* `except Exception`: what a step raises ends the request with
\* ErrorResponse(error_code="INTERNAL_ERROR")
Raise(r, step) ==
    [r EXCEPT !.pc = "done", !.error_code = "INTERNAL_ERROR", !.failed_at = step]

\* a request begins in the first task that is not serving one
Free(p) == req[p].pc \in {"idle", "done"}
CanBegin(p) ==
    /\ Free(p)
    /\ \A q \in Procs : q < p => ~Free(q)
    /\ begun < MaxRequests

\* the tasks as a request begins in task p: what the requests that have
\* returned did is in the tables, and their records are dropped
Arrive(p, r) ==
    [q \in Procs |-> IF q = p THEN r
                     ELSE IF req[q].pc = "done" THEN Idle ELSE req[q]]

NoAdHistory == [debits |-> 0, events |-> 0, saved |-> FALSE]

Begin(kind, u) == [Idle EXCEPT !.kind = kind, !.user_id = u]

(* ---- AdGenerationService.generate_ad ---- *)
\* the order of the awaited steps of generate_ad after the profile check
mutant_generate_ad_next(pc) ==
    CASE pc = "g_profile" -> "g_credits"
      [] pc = "g_credits" -> "g_update"
      [] pc = "g_update" -> "g_bill"
      [] pc = "g_bill" -> "g_log"
      [] pc = "g_log" -> "g_ad"
      [] OTHER -> "done"

mutant_generate_ad_log_first(pc) ==
    CASE pc = "g_profile" -> "g_credits"
      [] pc = "g_credits" -> "g_bill"
      [] pc = "g_bill" -> "g_log"
      [] pc = "g_log" -> "g_update"
      [] pc = "g_update" -> "g_ad"
      [] OTHER -> "done"

generate_ad_next(pc) ==
    CASE pc = "g_profile" -> "g_credits"
      [] pc = "g_credits" -> "g_bill"
      [] pc = "g_bill" -> "g_update"
      [] pc = "g_update" -> "g_log"
      [] pc = "g_log" -> "g_ad"
      [] OTHER -> "done"

\* steps 1-2: the profile and payment status, then the cost of the ad type
\* (request.ad_type is first read in step 2)
generate_ad_profile(p) ==
    /\ CanBegin(p)
    /\ \E u \in Users, t \in AdTypes :
         LET profile == profiles[u]
             r == [Begin("generate_ad", u) EXCEPT !.ad_type = t]
             credit_cost == AD_PRICING_get(t)
         IN req' = Arrive(p,
              IF ~profile.exists
              THEN Fail(Begin("generate_ad", u), "PROFILE_NOT_FOUND")
              ELSE IF profile.payment_status # "active"
                   THEN Fail(Begin("generate_ad", u), "PAYMENT_INACTIVE")
              ELSE IF credit_cost = 0 THEN Fail(r, "INVALID_AD_TYPE")
              ELSE [r EXCEPT !.pc = generate_ad_next("g_profile"),
                             !.credit_cost = credit_cost,
                             !.stripe_customer_id = profile.stripe_customer_id,
                             !.steps = <<"cost">>])
    /\ begun' = begun + 1
    /\ UNCHANGED <<db, ad_history, audit>>

\* _store_ad_content: `except Exception: ... raise`, what the upload raises
\* reaches generate_ad's own except clause
mutant_store_failed(r) ==
    [r EXCEPT !.pc = generate_ad_next("g_credits"), !.failed_at = "store"]

store_failed(r) == Raise(r, "store")

\* step 3: the user's Credits row; steps 4-5 follow without a round trip to
\* the database: the content is generated and uploaded, and _store_ad_content
\* re-raises what the upload raises
generate_ad_credits(p) ==
    /\ req[p].pc = "g_credits"
    /\ \E outcome \in IoOutcomes :
         LET row == credits[req[p].user_id]
             r == [req[p] EXCEPT !.loaded = row, !.credits = row]
         IN req' = [req EXCEPT ![p] =
              IF ~row.exists THEN Fail(@, "CREDITS_NOT_FOUND")
              ELSE IF outcome = "fail" THEN store_failed(r)
              ELSE [r EXCEPT !.pc = generate_ad_next("g_credits")]]
    /\ UNCHANGED <<db, begun, ad_history, audit>>

\* _handle_billing as a step of request p
HandleBilling(p, next) ==
    \E outcome \in StripeOutcomes :
       LET r == req[p]
           b == _handle_billing(r.credits, r.credit_cost,
                                r.stripe_customer_id, outcome)
           did == [r EXCEPT !.billing_result = b,
                            !.steps = @ \o (IF b.event > 0
                                            THEN <<"shortage", "billing">>
                                            ELSE <<"shortage">>)]
       IN /\ req' = [req EXCEPT ![p] =
               IF b.raised THEN Raise(did, "billing")
               ELSE [did EXCEPT !.pc = next]]
          /\ audit' = [audit EXCEPT ![r.user_id].reported =
                           IF b.reported THEN @ + b.event ELSE @]
          /\ ad_history' =
                IF r.kind = "save_ad" /\ b.reported
                THEN [ad_history EXCEPT ![r.ad_id].events = @ + 1]
                ELSE ad_history

\* _update_credits as a step of request p: the assignments, then the commit
UpdateCredits(p, next) ==
    \E outcome \in IoOutcomes :
       LET r == req[p]
           cur == _update_credits(r.credits, r.credit_cost,
                                  r.billing_result.shortage)
           did == [r EXCEPT !.credits = cur,
                            !.from_available =
                                r.credits.available_credits - cur.available_credits]
       IN IF outcome = "fail"
          THEN /\ req' = [req EXCEPT ![p] = Raise(did, "ledger")]
               /\ UNCHANGED <<credits, audit, ad_history>>
          ELSE /\ req' = [req EXCEPT ![p] =
                    [did EXCEPT !.pc = next, !.committed = TRUE,
                                !.steps = @ \o <<"ledger">>]]
               /\ credits' = [credits EXCEPT ![r.user_id] =
                                 flush_credits(@, r.loaded, cur)]
               /\ audit' = [audit EXCEPT ![r.user_id].debited =
                                @ + r.credit_cost]
               /\ ad_history' =
                     IF r.kind = "save_ad"
                     THEN [ad_history EXCEPT ![r.ad_id].debits = @ + 1]
                     ELSE ad_history

\* step 6
generate_ad_bill(p) ==
    /\ req[p].pc = "g_bill"
    /\ HandleBilling(p, generate_ad_next("g_bill"))
    /\ UNCHANGED <<db, begun>>

\* step 7
generate_ad_update(p) ==
    /\ req[p].pc = "g_update"
    /\ UpdateCredits(p, generate_ad_next("g_update"))
    /\ UNCHANGED <<profiles, user_ads, usage_logs, begun>>

mutant__create_usage_log(r) ==
    [user_id |-> r.user_id, ad_type |-> r.ad_type,
     credits_used |-> r.billing_result.shortage, source |-> "api_generation",
     is_draft |-> FALSE, ad_id |-> 0,
     metered_credits |-> r.billing_result.metered_credits]

\* the UsageLog row _create_usage_log adds
_create_usage_log(r) ==
    [user_id |-> r.user_id, ad_type |-> r.ad_type,
     credits_used |-> r.credit_cost, source |-> "api_generation",
     is_draft |-> FALSE, ad_id |-> 0,
     metered_credits |-> r.billing_result.metered_credits]

\* step 8
generate_ad_log(p) ==
    /\ req[p].pc = "g_log"
    /\ \E outcome \in IoOutcomes :
         IF outcome = "fail"
         THEN /\ req' = [req EXCEPT ![p] = Raise(@, "usage_log")]
              /\ UNCHANGED usage_logs
         ELSE /\ usage_logs' = Append(usage_logs, _create_usage_log(req[p]))
              /\ req' = [req EXCEPT ![p] =
                    [@ EXCEPT !.pc = generate_ad_next("g_log"),
                              !.usage_log_id = Len(usage_logs) + 1,
                              !.steps = @ \o <<"usage_log">>]]
    /\ UNCHANGED <<profiles, credits, user_ads, begun, ad_history, audit>>

\* the UserAds row _create_user_ad adds
_create_user_ad(r) ==
    [user_id |-> r.user_id, ad_type |-> r.ad_type, is_draft |-> FALSE]

\* steps 9-10: the ad row, then the response
generate_ad_ad(p) ==
    /\ req[p].pc = "g_ad"
    /\ \E outcome \in IoOutcomes :
         IF outcome = "fail"
         THEN /\ req' = [req EXCEPT ![p] = Raise(@, "ad")]
              /\ UNCHANGED <<user_ads, ad_history>>
         ELSE /\ user_ads' = Append(user_ads, _create_user_ad(req[p]))
              /\ ad_history' = Append(ad_history, NoAdHistory)
              /\ req' = [req EXCEPT ![p] =
                    [@ EXCEPT !.pc = "done", !.error_code = "OK",
                              !.ad_id = Len(user_ads) + 1,
                              !.billing_info =
                                  [credits_used |-> req[p].credit_cost,
                                   metered_credits |->
                                       req[p].billing_result.metered_credits]]]
    /\ UNCHANGED <<profiles, credits, usage_logs, begun, audit>>

(* ---- AdGenerationService.generate_ad_preview ---- *)
mutant_generate_ad_preview_next(pc) ==
    CASE pc = "p_profile" -> "g_credits"
      [] OTHER -> "done"

\* the order of the awaited steps of generate_ad_preview: no step reads the
\* ledger, computes a shortage or updates the credits
generate_ad_preview_next(pc) ==
    CASE pc = "p_profile" -> "p_ad"
      [] pc = "p_ad" -> "p_log"
      [] OTHER -> "done"

\* steps 1-4: the profile and payment status, then the cost (for display);
\* then the content is generated and uploaded
generate_ad_preview_profile(p) ==
    /\ CanBegin(p)
    /\ \E u \in Users, t \in AdTypes, outcome \in IoOutcomes :
         LET profile == profiles[u]
             r == [Begin("generate_ad_preview", u) EXCEPT !.ad_type = t]
             credit_cost == AD_PRICING_get(t)
         IN req' = Arrive(p,
              IF ~profile.exists
              THEN Fail(Begin("generate_ad_preview", u), "PROFILE_NOT_FOUND")
              ELSE IF profile.payment_status # "active"
                   THEN Fail(Begin("generate_ad_preview", u), "PAYMENT_INACTIVE")
              ELSE IF credit_cost = 0 THEN Fail(r, "INVALID_AD_TYPE")
              ELSE IF outcome = "fail"
                   THEN Raise([r EXCEPT !.credit_cost = credit_cost,
                                       !.steps = <<"cost">>], "store")
              ELSE [r EXCEPT !.pc = generate_ad_preview_next("p_profile"),
                             !.credit_cost = credit_cost,
                             !.steps = <<"cost">>])
    /\ begun' = begun + 1
    /\ UNCHANGED <<db, ad_history, audit>>

\* the id a new UserAds row gets: a fresh one
mutant_new_ad_id(ads) == IF Len(ads) = 0 THEN 1 ELSE Len(ads)

new_ad_id(ads) == Len(ads) + 1

\* the UserAds row _create_user_ad_draft adds
_create_user_ad_draft(r) ==
    [user_id |-> r.user_id, ad_type |-> r.ad_type, is_draft |-> TRUE]

\* a row stored under an id
Put(rows, id, row) ==
    IF id = Len(rows) + 1 THEN Append(rows, row) ELSE [rows EXCEPT ![id] = row]

\* step 5
generate_ad_preview_ad(p) ==
    /\ req[p].pc = "p_ad"
    /\ \E outcome \in IoOutcomes :
         IF outcome = "fail"
         THEN /\ req' = [req EXCEPT ![p] = Raise(@, "ad")]
              /\ UNCHANGED <<user_ads, ad_history>>
         ELSE /\ user_ads' = Put(user_ads, new_ad_id(user_ads),
                                 _create_user_ad_draft(req[p]))
              /\ ad_history' =
                    IF new_ad_id(user_ads) = Len(user_ads) + 1
                    THEN Append(ad_history, NoAdHistory) ELSE ad_history
              /\ req' = [req EXCEPT ![p] =
                    [@ EXCEPT !.pc = generate_ad_preview_next("p_ad"),
                              !.ad_id = new_ad_id(user_ads)]]
    /\ UNCHANGED <<profiles, credits, usage_logs, begun, audit>>

\* the UsageLog row _create_usage_log_draft adds
_create_usage_log_draft(r) ==
    [user_id |-> r.user_id, ad_type |-> r.ad_type,
     credits_used |-> r.credit_cost, source |-> "preview_generation",
     is_draft |-> TRUE, ad_id |-> r.ad_id, metered_credits |-> 0]

\* steps 6-7: the draft usage log, then the response
generate_ad_preview_log(p) ==
    /\ req[p].pc = "p_log"
    /\ \E outcome \in IoOutcomes :
         IF outcome = "fail"
         THEN /\ req' = [req EXCEPT ![p] = Raise(@, "usage_log")]
              /\ UNCHANGED usage_logs
         ELSE /\ usage_logs' = Append(usage_logs, _create_usage_log_draft(req[p]))
              /\ req' = [req EXCEPT ![p] =
                    [@ EXCEPT !.pc = generate_ad_preview_next("p_log"),
                              !.error_code = "OK",
                              !.usage_log_id = Len(usage_logs) + 1]]
    /\ UNCHANGED <<profiles, credits, user_ads, begun, ad_history, audit>>

(* ---- AdGenerationService.save_ad ---- *)
\* `if not ad.is_draft`: the ad was saved already
mutant_already_saved(ad) == FALSE

already_saved(ad) == ~ad.is_draft

\* the filter UserAds.user_id == user_id of the query of step 1
mutant_owned_by(ad, user_id) == TRUE

owned_by(ad, user_id) == ad.user_id = user_id

\* step 1: the ad of this id and this user, which must be a draft
save_ad_ad(p) ==
    /\ CanBegin(p)
    /\ \E u \in Users, ad_id \in 1..(Len(user_ads) + 1) :
         LET r == [Begin("save_ad", u) EXCEPT
                      !.ad_id = ad_id,
                      !.after_save =
                          ad_id <= Len(user_ads) /\ ad_history[ad_id].saved]
             found == ad_id <= Len(user_ads) /\ owned_by(user_ads[ad_id], u)
         IN req' = Arrive(p,
              IF ~found THEN Fail(r, "AD_NOT_FOUND")
              ELSE IF already_saved(user_ads[ad_id])
                   THEN Fail(r, "AD_ALREADY_SAVED")
              ELSE [r EXCEPT !.pc = "s_log",
                             !.ad_type = user_ads[ad_id].ad_type])
    /\ begun' = begun + 1
    /\ UNCHANGED <<db, ad_history, audit>>

\* step 2: the draft usage log of the ad; scalar_one_or_none raises when
\* more than one row matches
save_ad_usage_log(p) ==
    /\ req[p].kind = "save_ad" /\ req[p].pc = "s_log"
    /\ LET found == {i \in 1..Len(usage_logs) :
                        /\ usage_logs[i].ad_id = req[p].ad_id
                        /\ usage_logs[i].is_draft}
       IN req' = [req EXCEPT ![p] =
            IF found = {} THEN Fail(@, "USAGE_LOG_NOT_FOUND")
            ELSE IF Cardinality(found) > 1 THEN Raise(@, "select")
            ELSE LET i == CHOOSE i \in found : TRUE
                 IN [@ EXCEPT !.pc = "s_credits", !.usage_log_id = i,
                              !.credit_cost = usage_logs[i].credits_used,
                              !.steps = <<"cost">>]]
    /\ UNCHANGED <<db, begun, ad_history, audit>>

\* step 3: the profile, for `profile.stripe_customer_id if profile else
\* None` (no operation of this model writes a profile, so the two reads are
\* one step), and the user's Credits row
save_ad_credits(p) ==
    /\ req[p].kind = "save_ad" /\ req[p].pc = "s_credits"
    /\ LET row == credits[req[p].user_id]
           profile == profiles[req[p].user_id]
           r == [req[p] EXCEPT !.stripe_customer_id =
                    IF profile.exists THEN profile.stripe_customer_id ELSE None]
       IN req' = [req EXCEPT ![p] =
            IF ~row.exists THEN Fail(r, "CREDITS_NOT_FOUND")
            ELSE [r EXCEPT !.pc = "s_bill", !.loaded = row, !.credits = row]]
    /\ UNCHANGED <<db, begun, ad_history, audit>>

\* step 4
save_ad_bill(p) ==
    /\ req[p].kind = "save_ad" /\ req[p].pc = "s_bill"
    /\ HandleBilling(p, "s_update")
    /\ UNCHANGED <<db, begun>>

\* step 5
save_ad_update(p) ==
    /\ req[p].kind = "save_ad" /\ req[p].pc = "s_update"
    /\ UpdateCredits(p, "s_final")
    /\ UNCHANGED <<profiles, user_ads, usage_logs, begun>>

\* steps 6-9: both draft flags are cleared and committed, then the response
save_ad_final(p) ==
    /\ req[p].kind = "save_ad" /\ req[p].pc = "s_final"
    /\ \E outcome \in IoOutcomes :
         LET r == req[p]
         IN IF outcome = "fail"
            THEN /\ req' = [req EXCEPT ![p] = Raise(@, "final")]
                 /\ UNCHANGED <<user_ads, usage_logs, ad_history>>
            ELSE /\ usage_logs' = [usage_logs EXCEPT ![r.usage_log_id] =
                        [@ EXCEPT !.is_draft = FALSE,
                                  !.metered_credits =
                                      r.billing_result.metered_credits]]
                 /\ user_ads' = [user_ads EXCEPT ![r.ad_id] =
                        [@ EXCEPT !.is_draft = FALSE]]
                 /\ ad_history' = [ad_history EXCEPT ![r.ad_id].saved = TRUE]
                 /\ req' = [req EXCEPT ![p] =
                       [@ EXCEPT !.pc = "done", !.error_code = "OK",
                                 !.steps = @ \o <<"usage_log">>,
                                 !.billing_info =
                                     [credits_used |-> r.credit_cost,
                                      metered_credits |->
                                          r.billing_result.metered_credits]]]
    /\ UNCHANGED <<profiles, credits, begun, audit>>

(* ---- the system ---- *)
\* a ledger as sequential debits of text ads leave it: what was taken from
\* the allotment is in total_used, and nothing was metered yet
Ledger(available_credits) ==
    [create_credits(IncludedCredits) EXCEPT
       !.available_credits = available_credits,
       !.total_used = IncludedCredits - available_credits]

InitProfiles ==
    {NoProfile, Profile("cus_1", "past_due"),
     Profile(None, "active"), Profile("cus_1", "active")}

InitCredits == {NoCredits} \cup {Ledger(a) : a \in {5, IncludedCredits}}

\* a draft left by an earlier preview of an image ad: the ad and its usage log
DraftAd(u) == [user_id |-> u, ad_type |-> "image_ad", is_draft |-> TRUE]
DraftLog(u) ==
    [user_id |-> u, ad_type |-> "image_ad",
     credits_used |-> AD_PRICING_get("image_ad"),
     source |-> "preview_generation", is_draft |-> TRUE, ad_id |-> 1,
     metered_credits |-> 0]

\* u1 is in any state of subscription; u2 has a ledger and a lapsed payment
Init ==
    /\ \E profile \in InitProfiles, row \in InitCredits :
          /\ row.exists => profile.exists
          /\ profiles = [u \in Users |->
                           IF u = "u1" THEN profile
                           ELSE Profile("cus_2", "past_due")]
          /\ credits = [u \in Users |->
                          IF u = "u1" THEN row ELSE Ledger(IncludedCredits)]
    /\ \/ user_ads = <<>> /\ usage_logs = <<>> /\ ad_history = <<>>
       \/ /\ profiles["u1"].exists
          /\ user_ads = <<DraftAd("u1")>>
          /\ usage_logs = <<DraftLog("u1")>>
          /\ ad_history = <<NoAdHistory>>
    /\ req = [p \in Procs |-> Idle]
    /\ begun = 0
    /\ audit = [u \in Users |->
                  [first |-> credits[u], debited |-> 0, reported |-> 0]]

Next ==
    \E p \in Procs :
       \/ generate_ad_profile(p)
       \/ generate_ad_credits(p)
       \/ generate_ad_bill(p)
       \/ generate_ad_update(p)
       \/ generate_ad_log(p)
       \/ generate_ad_ad(p)
       \/ generate_ad_preview_profile(p)
       \/ generate_ad_preview_ad(p)
       \/ generate_ad_preview_log(p)
       \/ save_ad_ad(p)
       \/ save_ad_usage_log(p)
       \/ save_ad_credits(p)
       \/ save_ad_bill(p)
       \/ save_ad_update(p)
       \/ save_ad_final(p)

Spec == Init /\ [][Next]_vars

(* ---- the same operations served one request after another ---- *)
\* one task serves every request: a request begins when the one before it
\* has returned
Sequential == {1}

NextSequential ==
    \E p \in Sequential :
       \/ generate_ad_profile(p)
       \/ generate_ad_credits(p)
       \/ generate_ad_bill(p)
       \/ generate_ad_update(p)
       \/ generate_ad_log(p)
       \/ generate_ad_ad(p)
       \/ generate_ad_preview_profile(p)
       \/ generate_ad_preview_ad(p)
       \/ generate_ad_preview_log(p)
       \/ save_ad_ad(p)
       \/ save_ad_usage_log(p)
       \/ save_ad_credits(p)
       \/ save_ad_bill(p)
       \/ save_ad_update(p)
       \/ save_ad_final(p)

SpecSequential == Init /\ [][NextSequential]_vars

(* ---- routes/subscription.py stripe_webhook: checkout.session.completed ---- *)
\* the users whose checkout session completes: u1, in any state of
\* subscription at first
Subscribers == {"u1"}

\* session['customer'] of the checkout session of a user
customer_of(u) == IF u = "u1" THEN "cus_1" ELSE "cus_2"

\* a delivery is served by the first task that is not serving a request;
\* Stripe delivers, and redelivers, any number of times
CanDeliver(p) == Free(p) /\ \A q \in Procs : q < p => ~Free(q)

\* `except Exception`: return {"status": "error", ...}
WebhookError(r, step) ==
    [r EXCEPT !.pc = "done", !.error_code = "error", !.failed_at = step]

\* ProfileService.get_profile: `if not existing_profile`
stripe_webhook_profile(p) ==
    /\ CanDeliver(p)
    /\ \E u \in Subscribers :
         req' = Arrive(p,
            [Begin("stripe_webhook", u) EXCEPT
                !.stripe_customer_id = customer_of(u),
                !.pc = IF profiles[u].exists THEN "w_update_profile"
                       ELSE "w_create_profile"])
    /\ UNCHANGED <<db, begun, ad_history, audit>>

mutant_insert_conflicts(row) == FALSE

\* user_id is the primary key of profiles and of credits: the INSERT of a
\* second row of a user raises an IntegrityError
insert_conflicts(row) == row.exists

\* ProfileService.create_profile: the INSERT and its commit
stripe_webhook_create_profile(p) ==
    /\ req[p].pc = "w_create_profile"
    /\ \E outcome \in IoOutcomes :
         LET u == req[p].user_id
         IN IF outcome = "fail" \/ insert_conflicts(profiles[u])
            THEN /\ req' = [req EXCEPT ![p] = WebhookError(@, "profile")]
                 /\ UNCHANGED profiles
            ELSE /\ profiles' = [profiles EXCEPT ![u] =
                        Profile(req[p].stripe_customer_id, "active")]
                 /\ req' = [req EXCEPT ![p].pc = "w_create_credits"]
    /\ UNCHANGED <<credits, user_ads, usage_logs, begun, ad_history, audit>>

\* ProfileService.update_profile with ProfileUpdate(stripe_customer_id=...):
\* only the customer id is written
stripe_webhook_update_profile(p) ==
    /\ req[p].pc = "w_update_profile"
    /\ \E outcome \in IoOutcomes :
         LET u == req[p].user_id
         IN IF outcome = "fail"
            THEN /\ req' = [req EXCEPT ![p] = WebhookError(@, "profile")]
                 /\ UNCHANGED profiles
            ELSE /\ profiles' = [profiles EXCEPT ![u].stripe_customer_id =
                        req[p].stripe_customer_id]
                 /\ req' = [req EXCEPT ![p].pc = "w_credits"]
    /\ UNCHANGED <<credits, user_ads, usage_logs, begun, ad_history, audit>>

\* CreditsService.get_credits: `if not existing_credits`
stripe_webhook_credits(p) ==
    /\ req[p].pc = "w_credits"
    /\ req' = [req EXCEPT ![p] =
          IF credits[req[p].user_id].exists
          THEN [@ EXCEPT !.pc = "done", !.error_code = "success"]
          ELSE [@ EXCEPT !.pc = "w_create_credits"]]
    /\ UNCHANGED <<db, begun, ad_history, audit>>

\* CreditsService.create_credits(db, user_id, included_credits=1000): the
\* INSERT and its commit
stripe_webhook_create_credits(p) ==
    /\ req[p].pc = "w_create_credits"
    /\ \E outcome \in IoOutcomes :
         LET u == req[p].user_id
             db_credits == create_credits(IncludedCredits)
         IN IF outcome = "fail" \/ insert_conflicts(credits[u])
            THEN /\ req' = [req EXCEPT ![p] = WebhookError(@, "credits")]
                 /\ UNCHANGED <<credits, audit>>
            ELSE /\ credits' = [credits EXCEPT ![u] = db_credits]
                 /\ audit' = [audit EXCEPT ![u].first = db_credits]
                 /\ req' = [req EXCEPT ![p] =
                       [@ EXCEPT !.pc = "done", !.error_code = "success",
                                 !.credits = db_credits]]
    /\ UNCHANGED <<profiles, user_ads, usage_logs, begun, ad_history>>

\* the subscription webhook together with direct generations
NextWebhook ==
    \E p \in Procs :
       \/ stripe_webhook_profile(p)
       \/ stripe_webhook_create_profile(p)
       \/ stripe_webhook_update_profile(p)
       \/ stripe_webhook_credits(p)
       \/ stripe_webhook_create_credits(p)
       \/ generate_ad_profile(p)
       \/ generate_ad_credits(p)
       \/ generate_ad_bill(p)
       \/ generate_ad_update(p)
       \/ generate_ad_log(p)
       \/ generate_ad_ad(p)

\* no draft is left over at first: no request of NextWebhook reads one
InitWebhook == Init /\ user_ads = <<>>

SpecWebhook == InitWebhook /\ [][NextWebhook]_vars

(***************************************************************************)
(* Properties                                                              *)
(***************************************************************************)
Did(r, step) == \E i \in 1..Len(r.steps) : r.steps[i] = step

\* the assignments of _update_credits ran in the request's session
Updated(r) == r.credits # r.loaded

Debit(r) == r.kind \in {"generate_ad", "save_ad"}

\* C1: after any sequence of debits, one after another or interleaved, on a
\* ledger that began with available_credits >= 0, available_credits is >= 0,
\* in the table and in every session's Credits object.
C1_NonNegative ==
    /\ \A u \in Users :
          credits[u].exists => credits[u].available_credits >= 0
    /\ \A p \in Procs : req[p].credits.available_credits >= 0

\* more was debited than the allotment held, and the allotment is at 0
C1_Witness ==
    \E u \in Users :
       /\ credits[u].exists
       /\ audit[u].debited > audit[u].first.available_credits
       /\ credits[u].available_credits = 0

\* C2: within one request, what _update_credits takes from available_credits
\* plus the shortage _handle_billing computed equals the cost, both being
\* min(A, C) and max(0, C - A) of the same available_credits A, the value
\* the request loaded.
C2_SplitAddsUp ==
    \A p \in Procs :
       LET r == req[p]
           A == r.loaded.available_credits
       IN Updated(r) =>
            /\ r.from_available + r.billing_result.shortage = r.credit_cost
            /\ r.from_available = Min(A, r.credit_cost)
            /\ r.billing_result.shortage = Max(0, r.credit_cost - A)

\* a debit split between the allotment and the meter
C2_Witness ==
    \E p \in Procs :
       /\ Updated(req[p])
       /\ req[p].from_available > 0
       /\ req[p].billing_result.shortage > 0

\* the ledger a debit of cost C leaves of the ledger l
AfterDebit(l, C) ==
    [exists |-> TRUE,
     included_credits |-> l.included_credits,
     available_credits |-> l.available_credits - Min(l.available_credits, C),
     metered_credits |-> l.metered_credits + Max(0, C - l.available_credits),
     total_used |-> l.total_used + C]

\* C3: a debit of cost C whose ledger row (A, M, T) did not change between
\* its read and its commit leaves the row at A - min(A, C),
\* M + max(0, C - A), T + C, with included_credits as it was.
C3_SingleDebit ==
    [][\A p \in Procs :
          (/\ ~req[p].committed
           /\ req'[p].committed
           /\ credits[req[p].user_id] = req[p].loaded)
          => credits'[req[p].user_id] =
                AfterDebit(req[p].loaded, req[p].credit_cost)]_vars

\* a committed debit whose cost exceeded a positive allotment, the row being
\* what the debit alone makes of the row it read
C3_Witness ==
    \E p \in Procs :
       LET r == req[p]
       IN /\ r.committed
          /\ r.loaded.available_credits > 0
          /\ r.credit_cost > r.loaded.available_credits
          /\ credits[r.user_id] = AfterDebit(r.loaded, r.credit_cost)
          /\ credits[r.user_id].available_credits = 0

\* a step that reached the database or the bucket raised
IoFailed(r) ==
    r.failed_at \in {"store", "select", "ledger", "usage_log", "ad", "final"}

\* C4: a debit whose meter event raised an error of any kind, and which no
\* database or storage failure ended, returns success, with the ledger
\* commit done and metered_credits increased by the shortage.
C4_BestEffort ==
    \A p \in Procs :
       LET r == req[p]
       IN (/\ Debit(r) /\ r.pc = "done"
           /\ r.billing_result.event > 0
           /\ ~r.billing_result.reported
           /\ ~IoFailed(r))
          => /\ r.error_code = "OK"
             /\ r.committed
             /\ r.credits.metered_credits =
                   r.loaded.metered_credits + r.billing_result.shortage

\* the same debit against the same ledger
SameDebit(a, b) ==
    /\ Debit(a) /\ a.kind = b.kind
    /\ a.user_id = b.user_id
    /\ a.credit_cost = b.credit_cost
    /\ a.stripe_customer_id = b.stripe_customer_id
    /\ a.loaded = b.loaded

\* the ledger counters a request leaves of the ledger it read
RunLedger(r) == IF r.committed THEN r.credits ELSE r.loaded

\* C5: two runs of the same debit from the same ledger, the meter event
\* succeeding in one and failing in the other, and no database or storage
\* failure in either, end with the same ledger counters and return the same
\* billing summary.
C5_OutcomeIndependent ==
    \A p, q \in Procs :
       (/\ SameDebit(req[p], req[q])
        /\ req[p].pc = "done" /\ req[q].pc = "done"
        /\ req[p].billing_result.reported
        /\ req[q].billing_result.event > 0
        /\ ~req[q].billing_result.reported
        /\ ~IoFailed(req[p]) /\ ~IoFailed(req[q]))
       => /\ RunLedger(req[p]) = RunLedger(req[q])
          /\ req[p].billing_info = req[q].billing_info
          /\ req[p].error_code = req[q].error_code

\* C6: a debit attempts a meter event if and only if its shortage is
\* positive and the profile holds a stripe_customer_id, and the event then
\* carries the shortage; with no shortage, or no customer, none is attempted,
\* and the committed debit adds the shortage to metered_credits all the same.
C6_EventIffShortageAndCustomer ==
    \A p \in Procs :
       LET r == req[p]
           b == r.billing_result
       IN Did(r, "shortage") =>
            /\ (b.event > 0) <=>
                  (b.shortage > 0 /\ r.stripe_customer_id # None)
            /\ b.event > 0 => b.event = b.shortage
            /\ Did(r, "billing") <=> b.event > 0
            /\ r.committed =>
                  r.credits.metered_credits =
                     r.loaded.metered_credits + b.shortage

\* a committed debit with a shortage and no customer: no event, metered grew
C6_Witness ==
    \E p \in Procs :
       /\ req[p].committed
       /\ req[p].billing_result.shortage > 0
       /\ req[p].stripe_customer_id = None
       /\ req[p].billing_result.event = 0
       /\ credits[req[p].user_id].metered_credits >=
             req[p].billing_result.shortage

C8_ChargedOnce ==
    \A p, q \in Procs :
       (/\ p # q
        /\ req[p].kind = "save_ad" /\ req[q].kind = "save_ad"
        /\ req[p].ad_id = req[q].ad_id)
       => /\ ~(req[p].committed /\ req[q].committed)
          /\ ~(req[p].billing_result.reported /\ req[q].billing_result.reported)

\* C9: the draft flag of an ad row and of a usage-log row never goes from
\* false to true, whatever previews, saves and generations run.
C9_SavedStaysSaved ==
    [][/\ \A i \in 1..Len(user_ads) :
             ~user_ads[i].is_draft => ~user_ads'[i].is_draft
       /\ \A i \in 1..Len(usage_logs) :
             ~usage_logs[i].is_draft => ~usage_logs'[i].is_draft]_vars

\* a saved ad and its finalized usage log, with a draft previewed after it
C9_Witness ==
    \E i \in 1..Len(user_ads) :
       /\ ad_history[i].saved /\ ~user_ads[i].is_draft
       /\ \E k \in 1..Len(usage_logs) :
             usage_logs[k].ad_id = i /\ ~usage_logs[k].is_draft
       /\ \E j \in 1..Len(user_ads) : j > i /\ user_ads[j].is_draft

StepOrder == <<"cost", "shortage", "billing", "ledger", "usage_log">>
Rank(step) == CHOOSE i \in 1..Len(StepOrder) : StepOrder[i] = step

\* C10: the steps of a request happen in the order cost resolution, shortage
\* computation, meter event, ledger commit, usage-log write: the ledger is
\* committed only after the shortage was computed, and the usage log is
\* written only after the ledger commit succeeded.
C10_StepOrder ==
    \A p \in Procs :
       LET r == req[p]
       IN /\ \A i, j \in 1..Len(r.steps) :
                i < j => Rank(r.steps[i]) < Rank(r.steps[j])
          /\ Did(r, "shortage") => Did(r, "cost")
          /\ Did(r, "billing") => Did(r, "shortage")
          /\ Did(r, "ledger") <=> r.committed
          /\ r.committed => Did(r, "shortage")
          /\ Did(r, "usage_log") => r.committed

\* a generate_ad that went through all five steps
C10_Witness ==
    \E p \in Procs :
       /\ req[p].kind = "generate_ad"
       /\ req[p].steps = StepOrder
       /\ req[p].error_code = "OK"

\* the error codes of the precondition and validation checks
Rejections ==
    {"PROFILE_NOT_FOUND", "PAYMENT_INACTIVE", "INVALID_AD_TYPE",
     "CREDITS_NOT_FOUND", "AD_NOT_FOUND", "AD_ALREADY_SAVED"}

\* what each of these codes says of the tables the request read
Rejected(r) ==
    LET u == r.user_id
        found == /\ r.ad_id \in 1..Len(user_ads)
                 /\ user_ads[r.ad_id].user_id = u
    IN CASE r.error_code = "PROFILE_NOT_FOUND" -> ~profiles[u].exists
         [] r.error_code = "PAYMENT_INACTIVE" ->
               profiles[u].exists /\ profiles[u].payment_status # "active"
         [] r.error_code = "INVALID_AD_TYPE" ->
               r.ad_type \notin DOMAIN AD_PRICING
         [] r.error_code = "CREDITS_NOT_FOUND" -> ~credits[u].exists
         [] r.error_code = "AD_NOT_FOUND" -> ~found
         [] r.error_code = "AD_ALREADY_SAVED" ->
               found /\ ~user_ads[r.ad_id].is_draft
         [] OTHER -> FALSE

\* C11: the step in which a request is rejected for a precondition (no
\* profile, payment not active, ad type not in the cost table, no ledger row,
\* ad not found, ad already saved) returns the code of that very reason and
\* changes no table; the request has committed no debit and attempted no
\* meter event.
C11_RejectedBeforeAnyWrite ==
    [][\A p \in Procs :
          (/\ req'[p].pc = "done"
           /\ req'[p].error_code \in Rejections
           /\ (req[p].pc # "done" \/ begun' # begun))
          => /\ Rejected(req'[p])
             /\ db' = db /\ audit' = audit /\ ad_history' = ad_history
             /\ ~req'[p].committed
             /\ req'[p].billing_result = NoBilling]_vars

\* a request rejected for its ad type, the user's ledger being what an
\* earlier debit left
C11_Witness ==
    \E p \in Procs :
       LET u == req[p].user_id
       IN /\ req[p].error_code = "INVALID_AD_TYPE"
          /\ audit[u].debited > 0
          /\ credits[u].total_used = audit[u].first.total_used + audit[u].debited

\* C12: a debit whose ledger commit failed returns an error, has committed
\* nothing, has recorded no usage log of its own and has reported no meter
\* event.
C12_FailedCommitLeavesNothing ==
    \A p \in Procs :
       LET r == req[p]
       IN (Debit(r) /\ r.failed_at = "ledger")
          => /\ r.error_code = "INTERNAL_ERROR"
             /\ ~r.committed
             /\ ~Did(r, "usage_log")
             /\ ~r.billing_result.reported

\* the write of the usage log of a debit failed: _create_usage_log in
\* generate_ad, the commit of the finalized draft log in save_ad
LogWriteFailed(r) == Debit(r) /\ r.failed_at \in {"usage_log", "final"}

\* C13: the step in which the usage-log write of a debit fails comes after
\* the ledger commit of that debit and leaves the ledger table, and the
\* counters the request computed, as they are: the debit is not rolled back.
C13_DebitStands ==
    [][\A p \in Procs :
          (~LogWriteFailed(req[p]) /\ LogWriteFailed(req'[p]))
          => /\ req[p].committed /\ req'[p].committed
             /\ credits' = credits
             /\ req'[p].credits = req[p].credits]_vars

\* a generate_ad whose usage-log write failed, the ledger row holding the
\* counters of its debit
C13_Witness ==
    \E p \in Procs :
       LET r == req[p]
       IN /\ r.kind = "generate_ad" /\ r.failed_at = "usage_log"
          /\ r.committed
          /\ credits[r.user_id] = AfterDebit(r.loaded, r.credit_cost)

\* C14: a debit whose usage-log write failed after its ledger commit returns
\* success with the billing summary of the debit.
C14_LogFailureIsWarning ==
    \A p \in Procs :
       LET r == req[p]
       IN (LogWriteFailed(r) /\ r.committed)
          => /\ r.error_code = "OK"
             /\ r.billing_info.credits_used = r.credit_cost

\* the cost of the debit of task p, if it is a debit of user u that has
\* returned success
OkCost(p, u) ==
    IF /\ Debit(req[p]) /\ req[p].user_id = u
       /\ req[p].pc = "done" /\ req[p].error_code = "OK"
    THEN req[p].credit_cost ELSE 0

\* C15: when the debits committed on a user's ledger are those of requests
\* that returned success, whether they ran one after another or together,
\* total_used is its first value plus the sum of their costs.
C15_TotalUsedIsSum ==
    \A u \in Users :
       (credits[u].exists /\ audit[u].debited = OkCost(1, u) + OkCost(2, u))
       => credits[u].total_used =
             audit[u].first.total_used + audit[u].debited

\* C16: in every state, the available_credits of a ledger row, and of every
\* session's Credits object, is at most its included_credits.
C16_AvailableWithinIncluded ==
    /\ \A u \in Users :
          credits[u].available_credits <= credits[u].included_credits
    /\ \A p \in Procs :
          req[p].credits.available_credits <= req[p].credits.included_credits

\* a ledger debited beyond its allotment: nothing available, some metered
C16_Witness ==
    \E u \in Users :
       /\ credits[u].exists
       /\ audit[u].debited > 0
       /\ credits[u].available_credits < credits[u].included_credits
       /\ credits[u].metered_credits > 0

\* the error_code values of an ErrorResponse of the three methods
ErrorCodes == Rejections \cup {"USAGE_LOG_NOT_FOUND", "INTERNAL_ERROR"}

\* C17: a request that has ended has returned either the success payload or
\* an ErrorResponse with an error_code; what a step raised, in storage, the
\* database or the billing call, was returned as INTERNAL_ERROR.
C17_NeverRaises ==
    \A p \in Procs :
       LET r == req[p]
       IN /\ r.pc = "done" => r.error_code \in {"OK"} \cup ErrorCodes
          /\ r.failed_at # None =>
                r.pc = "done" /\ r.error_code = "INTERNAL_ERROR"
          /\ r.pc # "done" => r.error_code = None

\* a generate_ad ended by an exception of the billing call and a save_ad
\* ended by a failed commit, both returned as ErrorResponse
C17_Witness ==
    \E p, q \in Procs :
       /\ req[p].kind = "generate_ad" /\ req[p].failed_at = "billing"
       /\ req[q].kind = "save_ad" /\ req[q].failed_at = "final"
       /\ req[p].error_code = "INTERNAL_ERROR"
       /\ req[q].error_code = "INTERNAL_ERROR"

\* C18: no step of a generate_ad_preview request, successful or failing,
\* changes a ledger row or reports a meter event; a step that does either is
\* the step of a generate_ad or of a save_ad, so a draft that nobody saves
\* costs nothing.
C18_PreviewIsFree ==
    [][/\ \A p \in Procs :
             (req'[p].kind = "generate_ad_preview" /\ req'[p] # req[p])
             => /\ credits' = credits /\ audit' = audit
                /\ req'[p].credits = NoCredits
                /\ req'[p].billing_result = NoBilling
       /\ (credits' # credits \/ audit' # audit)
             => \E p \in Procs : Debit(req[p]) /\ req'[p] # req[p]]_vars

\* a preview that returned its draft, the draft unsaved and the user's ledger
\* as it first was
C18_Witness ==
    \E p \in Procs :
       LET r == req[p]
       IN /\ r.kind = "generate_ad_preview" /\ r.error_code = "OK"
          /\ user_ads[r.ad_id].is_draft
          /\ usage_logs[r.usage_log_id].is_draft
          /\ credits[r.user_id].exists
          /\ credits[r.user_id] = audit[r.user_id].first
          /\ ad_history[r.ad_id] = NoAdHistory

\* the usage-log rows of an ad
LogsOf(ad_id) == {k \in 1..Len(usage_logs) : usage_logs[k].ad_id = ad_id}

\* C20: a generate_ad that returned success wrote the usage log once, and
\* the row it added carries its user, its ad type and the full cost of that
\* type; an ad that a save_ad saved has exactly one usage-log row, the row
\* of its preview, no longer a draft, with the full cost of the ad's type.
C20_OneLogWithFullCost ==
    /\ \A p \in Procs :
          LET r == req[p]
              row == usage_logs[r.usage_log_id]
          IN (r.kind = "generate_ad" /\ r.error_code = "OK")
             => /\ Cardinality({i \in 1..Len(r.steps) :
                                   r.steps[i] = "usage_log"}) = 1
                /\ r.usage_log_id \in 1..Len(usage_logs)
                /\ row.user_id = r.user_id /\ row.ad_type = r.ad_type
                /\ row.source = "api_generation" /\ ~row.is_draft
                /\ row.credits_used = AD_PRICING[r.ad_type]
    /\ \A i \in 1..Len(user_ads) :
          ad_history[i].saved
          => /\ Cardinality(LogsOf(i)) = 1
             /\ \A k \in LogsOf(i) :
                   /\ ~usage_logs[k].is_draft
                   /\ usage_logs[k].source = "preview_generation"
                   /\ usage_logs[k].user_id = user_ads[i].user_id
                   /\ usage_logs[k].credits_used =
                         AD_PRICING[user_ads[i].ad_type]

\* a generate_ad that returned success with part of its cost metered, and a
\* saved ad with its usage log
C20_Witness ==
    /\ \E p \in Procs :
          /\ req[p].kind = "generate_ad" /\ req[p].error_code = "OK"
          /\ req[p].billing_result.shortage > 0
          /\ req[p].billing_result.shortage < req[p].credit_cost
    /\ \E i \in 1..Len(user_ads) :
          ad_history[i].saved /\ LogsOf(i) # {}

\* C19: a ledger row comes into being with available_credits =
\* included_credits = 1000 and nothing metered or used; a row that exists
\* stays, and no step of a checkout.session.completed delivery, a first one
\* or a redelivery, before or after debits, changes a row that exists.
C19_LedgerCreatedOnce ==
    [][\A u \in Users :
          /\ (~credits[u].exists /\ credits'[u].exists)
                => credits'[u] = create_credits(IncludedCredits)
          /\ credits[u].exists => credits'[u].exists
          /\ \A p \in Procs :
                (/\ req'[p].kind = "stripe_webhook" /\ req'[p] # req[p]
                 /\ credits[u].exists)
                => credits'[u] = credits[u]]_vars

\* a delivery that found the ledger of its user, which debits had changed,
\* and returned success
C19_Witness ==
    \E p \in Procs :
       LET r == req[p]
       IN /\ r.kind = "stripe_webhook" /\ r.error_code = "success"
          /\ r.credits = NoCredits
          /\ audit[r.user_id].debited > 0
          /\ credits[r.user_id].total_used =
                audit[r.user_id].first.total_used + audit[r.user_id].debited

\* how many times a request did a step
Times(r, step) == Cardinality({i \in 1..Len(r.steps) : r.steps[i] = step})

\* C21: a debit computes its shortage once and calls the meter at most once,
\* whatever the call returns or raises, and the value of the event is the
\* shortage max(0, C - available_credits) of the ledger the debit read.
C21_OneEventOfShortage ==
    \A p \in Procs :
       LET r == req[p]
           b == r.billing_result
       IN Debit(r) =>
            /\ Times(r, "shortage") <= 1
            /\ Times(r, "billing") <= 1
            /\ (Times(r, "billing") = 1) <=> (b.event > 0)
            /\ b.event > 0 =>
                  b.event = Max(0, r.credit_cost - r.loaded.available_credits)
            /\ b.reported => b.event > 0

\* a debit whose one meter call failed with a processor error, the debit
\* committed all the same, part of its cost being metered
C21_Witness ==
    \E p \in Procs :
       LET r == req[p]
           b == r.billing_result
       IN /\ Debit(r) /\ r.committed
          /\ b.event > 0 /\ ~b.reported /\ ~b.raised
          /\ b.event < r.credit_cost
          /\ Times(r, "billing") = 1

\* two debits of one user in flight together that read the same ledger, each
\* covered by its available_credits, the two together not
RaceWithinAllotment(a, b) ==
    /\ Debit(a) /\ Debit(b)
    /\ a.user_id = b.user_id
    /\ a.loaded.exists /\ a.loaded = b.loaded
    /\ a.credit_cost <= a.loaded.available_credits
    /\ b.credit_cost <= a.loaded.available_credits
    /\ a.credit_cost + b.credit_cost > a.loaded.available_credits

\* C22: of two concurrent debits of one user that read the same
\* available_credits A, with costs C1 <= A, C2 <= A and C1 + C2 > A, each
\* computes the shortage 0, attempts no meter event and leaves
\* metered_credits as it read it.
C22_RaceUnderBills ==
    \A p, q \in Procs :
       (p # q /\ RaceWithinAllotment(req[p], req[q]))
       => /\ Did(req[p], "shortage") =>
                /\ req[p].billing_result.shortage = 0
                /\ req[p].billing_result.event = 0
          /\ Updated(req[p]) =>
                req[p].credits.metered_credits =
                   req[p].loaded.metered_credits

\* both debits of such a race returned success: more was debited than was
\* available, nothing was metered and nothing was reported
C22_Witness ==
    \E p, q \in Procs :
       LET u == req[p].user_id
       IN /\ p # q /\ RaceWithinAllotment(req[p], req[q])
          /\ req[p].error_code = "OK" /\ req[q].error_code = "OK"
          /\ audit[u].debited > audit[u].first.available_credits
          /\ credits[u].metered_credits = audit[u].first.metered_credits
          /\ audit[u].reported = 0

\* C23: the persisted total_used and metered_credits of a ledger row never
\* decrease from one committed state to the next, concurrent debits
\* included.
C23_CountersNeverDecrease ==
    [][\A u \in Users :
          (credits[u].exists /\ credits'[u].exists)
          => /\ credits'[u].total_used >= credits[u].total_used
             /\ credits'[u].metered_credits >= credits[u].metered_credits]_vars

\* C24: in an execution made of debits only, the persisted
\* available_credits of a ledger row never increases from one committed
\* state to the next, concurrent debits included.
C24_AvailableNeverIncreases ==
    [][\A u \in Users :
          (credits[u].exists /\ credits'[u].exists)
          => credits'[u].available_credits <= credits[u].available_credits]_vars

\* no save_ad is at work on the ad
SaveSettled(ad_id) ==
    \A p \in Procs :
       ~(req[p].kind = "save_ad" /\ req[p].ad_id = ad_id /\ req[p].pc # "done")

\* C25: once no save of an ad is in flight, a failed save included, the ad
\* is Saved if and only if a ledger debit for it was committed, and at most
\* one debit was committed for it: the debit and the flip of the draft flag
\* take effect together.
C25_DebitAndFlipTogether ==
    \A i \in 1..Len(user_ads) :
       SaveSettled(i)
       => /\ (ad_history[i].debits > 0) <=> ad_history[i].saved
          /\ ad_history[i].debits <= 1

\* C26: no operation commits a debit to the ledger of a user whose profile
\* is missing or whose payment status is not "active".
C26_DebitNeedsActivePayment ==
    \A p \in Procs :
       (Debit(req[p]) /\ req[p].committed)
       => /\ profiles[req[p].user_id].exists
          /\ profiles[req[p].user_id].payment_status = "active"

\* the units request p reported to the meter for user u, when p returned
\* success
OkReported(p, u) ==
    IF /\ Debit(req[p]) /\ req[p].user_id = u
       /\ req[p].pc = "done" /\ req[p].error_code = "OK"
       /\ req[p].billing_result.reported
    THEN req[p].billing_result.event ELSE 0

\* no request is in flight
Settled == \A p \in Procs : req[p].pc \in {Idle.pc, "done"}

\* C27: in a settled state whose ledger commits and meter events are those
\* of requests that returned success, concurrent ones included, the units
\* reported to the external processor for a user are at most the increase of
\* the user's metered_credits since the first ledger.
C27_ReportedWithinMetered ==
    \A u \in Users :
       (/\ Settled /\ credits[u].exists
        /\ audit[u].debited = OkCost(1, u) + OkCost(2, u)
        /\ audit[u].reported = OkReported(1, u) + OkReported(2, u))
       => audit[u].reported <=
             credits[u].metered_credits - audit[u].first.metered_credits

\* C28: in every state reached from a first ledger by debits served one
\* after another, with no refill, every ledger row has
\* total_used = (included_credits - available_credits) + metered_credits.
C28_SequentialBalance ==
    \A u \in Users :
       credits[u].exists
       => credits[u].total_used =
             (credits[u].included_credits - credits[u].available_credits)
             + credits[u].metered_credits

\* a ledger after two debits served in sequence, the second beyond the
\* allotment
C28_Witness ==
    \E u \in Users :
       /\ credits[u].exists
       /\ audit[u].debited > audit[u].first.available_credits
       /\ credits[u].metered_credits > audit[u].first.metered_credits
       /\ credits[u].available_credits = 0
       /\ req[1].user_id = u /\ req[1].pc = "done" /\ req[1].error_code = "OK"
       /\ req[1].committed /\ audit[u].debited > req[1].credit_cost
       /\ req[2] = Idle

\* a save_ad of an ad that exists and belongs to another user
ForeignSave(r) ==
    /\ r.kind = "save_ad"
    /\ r.ad_id <= Len(user_ads)
    /\ user_ads[r.ad_id].user_id # r.user_id

\* C29: save_ad by a user for an ad of another user returns AD_NOT_FOUND
\* having done no step: it read no ledger, attempted no meter event and
\* committed nothing; and the ledger row of a user on which no debit of that
\* user was committed is the row it was at first.
C29_ForeignSaveRejected ==
    /\ \A p \in Procs :
          ForeignSave(req[p])
          => /\ req[p].pc = "done"
             /\ req[p].error_code = "AD_NOT_FOUND"
             /\ req[p].steps = <<>>
             /\ ~req[p].committed
             /\ req[p].billing_result = NoBilling
             /\ req[p].credits = Idle.credits
             /\ req[p].usage_log_id = 0
    /\ \A u \in Users :
          audit[u].debited = 0 => credits[u] = audit[u].first

\* u2 asked to save the draft of u1 and was refused: the ad and its usage
\* log are drafts still, no ledger has changed, nothing was reported
C29_Witness ==
    \E p \in Procs :
       LET r == req[p]
       IN /\ ForeignSave(r) /\ r.error_code = "AD_NOT_FOUND"
          /\ user_ads[r.ad_id].is_draft
          /\ \A k \in LogsOf(r.ad_id) : usage_logs[k].is_draft
          /\ LogsOf(r.ad_id) # {}
          /\ ad_history[r.ad_id] = NoAdHistory
          /\ \A u \in Users :
                credits[u] = audit[u].first /\ audit[u].reported = 0

\* the upload of the generated content failed in this generate_ad
StoreFailed(r) == r.kind = "generate_ad" /\ r.failed_at = "store"

\* C30: a generate_ad whose content could not be stored has ended with
\* INTERNAL_ERROR having done no billing step: no shortage computed, no meter
\* event attempted, its Credits object as loaded, nothing committed, and no
\* usage-log or ad row written.
C30_StoreFailureBillsNothing ==
    \A p \in Procs :
       LET r == req[p]
       IN StoreFailed(r)
          => /\ r.pc = "done"
             /\ r.error_code = "INTERNAL_ERROR"
             /\ r.steps = <<"cost">>
             /\ r.billing_result = NoBilling
             /\ r.credits = r.loaded
             /\ ~r.committed
             /\ r.usage_log_id = 0 /\ r.ad_id = 0

\* such a request of a user that has a ledger, the only request so far: the
\* ledger is the first one, nothing was reported, the tables have the rows
\* they had at first
C30_Witness ==
    \E p \in Procs :
       LET r == req[p]
       IN /\ StoreFailed(r) /\ r.loaded.exists
          /\ begun = 1
          /\ credits[r.user_id] = audit[r.user_id].first
          /\ audit[r.user_id].reported = 0 /\ audit[r.user_id].debited = 0
          /\ \A i \in 1..Len(user_ads) : user_ads[i].is_draft
          /\ \A k \in 1..Len(usage_logs) : usage_logs[k].is_draft
====
